---- MODULE Spec2Model ----
(***************************************************************************)
(* State-machine model of the teslajsonpy device layer:                    *)
(*   teslajsonpy/vehicle.py         VehicleDevice, StatusSensor            *)
(*   teslajsonpy/battery_sensor.py  Battery, Range                         *)
(*   teslajsonpy/sentry.py          SentrySwitch                           *)
(* The Controller (network session, per-vehicle cache) is the external     *)
(* collaborator of the devices; it is modelled by what the devices read    *)
(* from it and by the answers it can give.                                 *)
(*                                                                         *)
(* Python values are modelled as follows.  A dict is a function whose      *)
(* domain is the set of keys it holds; the empty dict is EmptyDict; None   *)
(* returned in the place of a dict is the value None.  Python booleans and *)
(* None held by a device field are the strings "True", "False", "None",    *)
(* and "{}" stands for an empty dict held by such a field.                 *)
(***************************************************************************)
EXTENDS Integers, Sequences, FiniteSets, TLC

\* ------------------------------------------------------------------ bounds
MaxTime == 2

MaxLevel == 2

MaxRange == 2

\* ------------------------------------------------------------------ state
VARIABLES
    now,                 \* time.time(), in ticks
    car_online,          \* Controller.car_online[...], the flag of this vehicle
                         \* (read by id in assumed_state, by vin in StatusSensor)
    last_update_time,    \* Controller._last_update_time[id]
    last_wake_up_time,   \* Controller._last_wake_up_time[id]
    charging_params,     \* Controller.get_charging_params(id)
    drive_params,        \* Controller.get_drive_params(id)
    gui_params,          \* Controller.get_gui_params(id)
    state_params,        \* Controller.get_state_params(id)
    inflight,            \* Controller.update: the answer of the vehicle to a poll
                         \* that has not completed yet
    overtaken,           \* history: the cache holds the answer to a poll that began
                         \* before a command was issued and completed after it
    identity,            \* VehicleDevice._id, _vehicle_id, _vin, _display_name,
                         \* _car_type of each device the host has set up
    car_version,         \* VehicleDevice._car_version, one per device
    pc,                  \* position of each device's async_update coroutine
    wake_if_asleep,      \* wake_if_asleep of the Controller.update call it awaits
    status,              \* StatusSensor.__status
    battery_level,       \* Battery.__battery_level
    usable_battery_level,\* Battery.__usable_battery_level
    charging_state,      \* Battery.__charging_state
    battery_range,       \* Range.__battery_range
    est_battery_range,   \* Range.__est_battery_range
    ideal_battery_range, \* Range.__ideal_battery_range
    rated,               \* Range.__rated
    measurement,         \* Range.measurement
    sentry_state,        \* SentrySwitch.__sentry_state
    manual_update_time,  \* SentrySwitch.__manual_update_time
    pcCmd,               \* position of the enable_sentry/disable_sentry coroutine
    last,                \* history: the last completed operation
    prev,                \* history: the operation completed before last
    fresh                \* history: the Controller's cache is as last read it

ctlVars == <<car_online, last_update_time, last_wake_up_time,
             charging_params, drive_params, gui_params, state_params,
             inflight, overtaken>>
statusVars == <<status>>
batteryVars == <<battery_level, usable_battery_level, charging_state>>
rangeVars == <<battery_range, est_battery_range, ideal_battery_range, rated, measurement>>
sentryVars == <<sentry_state, manual_update_time>>
histVars == <<last, prev, fresh>>
vars == <<now, identity, ctlVars, car_version, pc, wake_if_asleep, statusVars, batteryVars, rangeVars,
          sentryVars, pcCmd, histVars>>

Devices == {"vehicle", "battery", "range", "status", "sentry"}

\* ------------------------------------------------------------------ Python values
None == [none |-> "None"]

EmptyDict == <<>>

\* bool(d) of a dict-or-None d
Truthy(d) == d # None /\ DOMAIN d # {}

\* d[k] raises (TypeError on None, KeyError on a missing key)
Raises(d, k) == d = None \/ k \notin DOMAIN d

PyBool(b) == IF b THEN "True" ELSE "False"

\* a facet that is present and holds all the fields K
Complete(d, K) == Truthy(d) /\ K \subseteq DOMAIN d

\* a facet as the Controller's interface describes it: absent, or holding
\* all the fields K
WellFormed(d, K) == ~Truthy(d) \/ K \subseteq DOMAIN d

\* ------------------------------------------------------------------ history
\* a completed operation op of device dev: whether it issued a remote command
\* and the answer to it, whether it raised, whether the race guard let the
\* poll through, the value it returned
Entry(dev, op, issued, resp, raised, guard, ret) ==
    [dev |-> dev, op |-> op, issued |-> issued, resp |-> resp, raised |-> raised,
     guard |-> guard, ret |-> ret]

NoEntry == Entry("-", "-", FALSE, "-", FALSE, FALSE, "-")

Command(op, issued, resp) == Entry("sentry", op, issued, resp, FALSE, FALSE, "-")

Summary(e) == [dev |-> e.dev, op |-> e.op, issued |-> e.issued, resp |-> e.resp]

Record(e) == last' = e /\ prev' = Summary(last) /\ fresh' = TRUE

\* ------------------------------------------------------------------ construction
\* seq[i] of Python, which counts from 0
PyIndex(seq, i) == seq[i + 1]

\* str.upper() of one character
Upper(c) ==
    CASE c = "s" -> "S" [] c = "x" -> "X" [] c = "y" -> "Y" [] c = "j" -> "J"
      [] OTHER -> c

\* the vehicle record the devices are constructed from
VehicleData ==
    [id |-> "id-1", vehicle_id |-> "vehicle-1", display_name |-> "My car",
     vin |-> <<"5", "Y", "J", "s", "A", "1">>, state |-> "online"]

\* the identity attributes VehicleDevice.__init__ takes from data
Identity(data) ==
    [id |-> data["id"], vehicle_id |-> data["vehicle_id"],
     display_name |-> data["display_name"], vin |-> data["vin"],
     car_type |-> <<"Model ", Upper(PyIndex(data["vin"], 3))>>]

\* the fields of the devices and of the Controller after construction
InitFields ==
    /\ now = 0
    /\ car_online = TRUE
    /\ last_update_time = 0
    /\ last_wake_up_time = 0
    /\ charging_params = None
    /\ drive_params = None
    /\ gui_params = None
    /\ state_params = None
    /\ inflight = None
    /\ overtaken = FALSE
    /\ car_version = [d \in Devices |-> ""]
    /\ pc = [d \in Devices |-> "idle"]
    /\ wake_if_asleep = [d \in Devices |-> "-"]
    /\ status = "Unknown"
    /\ battery_level = 0
    /\ usable_battery_level = 0
    /\ charging_state = "None"
    /\ battery_range = 0
    /\ est_battery_range = 0
    /\ ideal_battery_range = 0
    /\ rated = "True"
    /\ measurement = "LENGTH_MILES"
    /\ sentry_state = "False"
    /\ manual_update_time = 0
    /\ pcCmd = "idle"
    /\ last = NoEntry
    /\ prev = Summary(NoEntry)
    /\ fresh = TRUE

\* the host has set up one device of each kind
Init ==
    /\ InitFields
    /\ identity = [d \in Devices |-> Identity(VehicleData)]

\* ------------------------------------------------------------------ clock
Tick ==
    /\ now < MaxTime
    /\ now' = now + 1
    /\ UNCHANGED <<identity, ctlVars, car_version, pc, wake_if_asleep, statusVars, batteryVars, rangeVars,
                   sentryVars, pcCmd, histVars>>

\* ------------------------------------------------------------------ Controller
\* A poll of the vehicle by Controller.update: the cache is replaced by what
\* the vehicle answered and the poll is stamped with the current time.
ControllerUpdate(online, ch, dr, gui, st) ==
    /\ car_online' = online
    /\ charging_params' = ch
    /\ drive_params' = dr
    /\ gui_params' = gui
    /\ state_params' = st
    /\ last_update_time' = now
    /\ fresh' = FALSE
    /\ overtaken' = FALSE
    /\ UNCHANGED <<now, identity, inflight, last_wake_up_time, car_version, pc, wake_if_asleep, statusVars,
                   batteryVars, rangeVars, sentryVars, pcCmd, last, prev>>

\* Controller.update as the two steps of a network poll. First the vehicle
\* answers with its state st; quiet tells whether any command was awaited then.
ControllerPollBegin(st) ==
    /\ inflight = None
    /\ inflight' = [st |-> st, quiet |-> (pcCmd = "idle")]
    /\ fresh' = FALSE
    /\ UNCHANGED <<now, identity, car_online, last_update_time, last_wake_up_time,
                   charging_params, drive_params, gui_params, state_params,
                   overtaken, car_version, pc, wake_if_asleep, statusVars,
                   batteryVars, rangeVars, sentryVars, pcCmd, last, prev>>

\* Then the answer arrives: it is cached and the poll is stamped as the last
\* successful one. The poll is overtaken when it began with no command
\* awaited and a command has been issued and has succeeded since.
ControllerPollEnd ==
    /\ inflight # None
    /\ state_params' = inflight.st
    /\ last_update_time' = now
    /\ overtaken' = (/\ inflight.quiet /\ fresh /\ pcCmd = "idle"
                     /\ last.op \in {"enable", "disable"}
                     /\ last.issued /\ last.resp = "Ok")
    /\ inflight' = None
    /\ fresh' = FALSE
    /\ UNCHANGED <<now, identity, car_online, last_wake_up_time, charging_params,
                   drive_params, gui_params, car_version, pc, wake_if_asleep,
                   statusVars, batteryVars, rangeVars, sentryVars, pcCmd, last, prev>>

\* the state facets the Controller can hold: absent, empty, complete, partial
StateFacets ==
    {None, EmptyDict}
    \cup {[sentry_mode |-> PyBool(s), car_version |-> "v1"] : s \in BOOLEAN}
    \cup {[car_version |-> "v1"]}
    \cup {[sentry_mode |-> PyBool(s)] : s \in BOOLEAN}

\* ------------------------------------------------------------------ VehicleDevice
\* a refresh that forces the vehicle awake
UpdateWakeForced == "True"

\* the wake_if_asleep argument of VehicleDevice.async_update's call of
\* Controller.update
UpdateWakeIfAsleep == "False"

\* async_update up to its await: the call of Controller.update(id, wake_if_asleep=False)
async_update_call(d) ==
    /\ d \in DOMAIN identity
    /\ pc[d] = "idle"
    /\ pc' = [pc EXCEPT ![d] = "update"]
    /\ wake_if_asleep' = [wake_if_asleep EXCEPT ![d] = UpdateWakeIfAsleep]
    /\ UNCHANGED <<now, identity, ctlVars, car_version, statusVars, batteryVars, rangeVars,
                   sentryVars, pcCmd, histVars>>

\* a car version that is cleared when the state facet does not hold one
CarVersionCleared(state, old) ==
    IF Truthy(state) /\ "car_version" \in DOMAIN state
    THEN state.car_version
    ELSE ""

\* _car_version after `if state and "car_version" in state`
CarVersionAfter(state, old) ==
    IF Truthy(state) /\ "car_version" \in DOMAIN state
    THEN state.car_version
    ELSE old

\* a car version kept in one attribute shared by all devices
VehicleDevice_async_update_shared(d) ==
    car_version' =
        [e \in Devices |-> CarVersionAfter(state_params, car_version[d])]

\* VehicleDevice.async_update after the await: the car version is re-read
VehicleDevice_async_update(d) ==
    car_version' =
        [car_version EXCEPT ![d] = CarVersionAfter(state_params, car_version[d])]

\* VehicleDevice.async_update after the await, for a device of the base class
VehicleDevice_async_update_return ==
    /\ pc["vehicle"] = "update"
    /\ pc' = [pc EXCEPT !["vehicle"] = "idle"]
    /\ wake_if_asleep' = [wake_if_asleep EXCEPT !["vehicle"] = "-"]
    /\ VehicleDevice_async_update("vehicle")
    /\ Record(Entry("vehicle", "refresh", FALSE, "-", FALSE, FALSE, "-"))
    /\ UNCHANGED <<now, identity, ctlVars, statusVars, batteryVars, rangeVars, sentryVars, pcCmd>>

\* Controller.update_interval
update_interval == 1

\* assumed_state with >= in the place of >
assumed_state_ge ==
    ~car_online /\ (last_update_time - last_wake_up_time >= update_interval)

\* VehicleDevice.assumed_state
assumed_state ==
    ~car_online /\ (last_update_time - last_wake_up_time > update_interval)

\* a call of assumed_state by the host
assumed_state_call ==
    /\ Record(Entry("vehicle", "assumed_state", FALSE, "-", FALSE, FALSE,
                    PyBool(assumed_state)))
    /\ UNCHANGED <<now, identity, ctlVars, car_version, pc, wake_if_asleep, statusVars, batteryVars,
                   rangeVars, sentryVars, pcCmd>>

\* the Controller wakes the vehicle up
ControllerWakeUp ==
    /\ car_online' = TRUE
    /\ last_wake_up_time' = now
    /\ fresh' = FALSE
    /\ UNCHANGED <<now, identity, inflight, overtaken, last_update_time, charging_params, drive_params, gui_params,
                   state_params, car_version, pc, wake_if_asleep, statusVars, batteryVars,
                   rangeVars, sentryVars, pcCmd, last, prev>>

VehicleStateFacets ==
    {None, EmptyDict, [car_version |-> "v1"], [car_version |-> "v2"],
     [sentry_mode |-> "False"]}

PollVehicle ==
    \E online \in BOOLEAN, st \in VehicleStateFacets :
        ControllerUpdate(online, charging_params, drive_params, gui_params, st)

VehicleNext ==
    \/ Tick
    \/ PollVehicle
    \/ ControllerWakeUp
    \/ async_update_call("vehicle")
    \/ VehicleDevice_async_update_return
    \/ assumed_state_call

SpecVehicle == Init /\ [][VehicleNext]_vars

StatusChargingFacets ==
    {None, EmptyDict, [battery_level |-> 1]}
    \cup {[battery_level |-> 1, charging_state |-> c] : c \in {"Charging", "Complete"}}

\* shift_state as the vehicle reports it; "None" is null, "X" any other value
ShiftStates == {"D", "R", "N", "P", "", "None", "X"}

\* the driving facets: absent, empty, complete, and one that lacks shift_state
DriveFacets ==
    {None, EmptyDict, [speed |-> 0]}
    \cup {[speed |-> 0, shift_state |-> x] : x \in ShiftStates}

\* not v, for a shift_state v
Falsy(v) == v \in {"", "None"}

\* the status computed by StatusSensor.async_update, "raise" when it raises
StatusOf(online, charging_data, driving_data) ==
    IF ~online THEN "Sleeping"
    ELSE IF Truthy(charging_data) /\ Raises(charging_data, "charging_state") THEN "raise"
    ELSE IF Truthy(charging_data) /\ charging_data.charging_state = "Charging"
         THEN "Charging"
    ELSE IF Truthy(driving_data) /\ Raises(driving_data, "shift_state") THEN "raise"
    ELSE IF Truthy(driving_data) /\ driving_data.shift_state \in {"D", "R", "N"}
         THEN "Driving"
    ELSE IF Raises(driving_data, "shift_state") THEN "raise"
    ELSE IF Falsy(driving_data.shift_state) \/ driving_data.shift_state = "P"
         THEN "Parked"
    ELSE "Unknown"

StatusSensor_async_update ==
    /\ pc["status"] = "update"
    /\ pc' = [pc EXCEPT !["status"] = "idle"]
    /\ wake_if_asleep' = [wake_if_asleep EXCEPT !["status"] = "-"]
    /\ VehicleDevice_async_update("status")
    /\ LET s == StatusOf(car_online, charging_params, drive_params) IN
         IF s = "raise"
         THEN /\ status' = status
              /\ Record(Entry("status", "refresh", FALSE, "-", TRUE, FALSE, "-"))
         ELSE /\ status' = s
              /\ Record(Entry("status", "refresh", FALSE, "-", FALSE, FALSE, "-"))
    /\ UNCHANGED <<now, identity, ctlVars, batteryVars, rangeVars, sentryVars, pcCmd>>

\* StatusSensor.get_value
StatusSensor_get_value == status

PollStatus ==
    \E online \in BOOLEAN, ch \in StatusChargingFacets, dr \in DriveFacets :
        ControllerUpdate(online, ch, dr, gui_params, state_params)

StatusNext ==
    \/ PollStatus
    \/ async_update_call("status")
    \/ StatusSensor_async_update

SpecStatus == Init /\ [][StatusNext]_vars

\* the step of StatusSensor.async_update that follows its await
StatusRefreshStep == pc["status"] = "update" /\ pc'["status"] = "idle"

\* the status by the ordered precedence, absent driving data counting as an
\* empty shift-state
Precedence(online, charging_data, driving_data) ==
    IF ~online THEN "Sleeping"
    ELSE IF Truthy(charging_data) /\ charging_data.charging_state = "Charging"
         THEN "Charging"
    ELSE IF Truthy(driving_data) /\ driving_data.shift_state \in {"D", "R", "N"}
         THEN "Driving"
    ELSE IF ~Truthy(driving_data) \/ driving_data.shift_state \in {"", "None", "P"}
         THEN "Parked"
    ELSE "Unknown"

\* C4: after every StatusSensor refresh the presented status is the one given
\* by the ordered precedence Sleeping, Charging, Driving, Parked, Unknown over
\* the online flag, the charging facet and the driving facet, for every
\* combination of present and absent facets.
C4_StatusPrecedence ==
    [][(StatusRefreshStep /\ WellFormed(charging_params, {"charging_state"})
        /\ WellFormed(drive_params, {"shift_state"}))
       => StatusSensor_get_value' = Precedence(car_online, charging_params, drive_params)]_vars

\* C5: a refresh with the vehicle online, the charging facet absent or not
\* charging, and the driving facet absent does not fail and presents Parked.
C5_AbsentDrivingParked ==
    [][(/\ StatusRefreshStep
        /\ car_online
        /\ WellFormed(charging_params, {"charging_state"})
        /\ (Truthy(charging_params) => charging_params.charging_state # "Charging")
        /\ ~Truthy(drive_params))
       => (~last'.raised /\ status' = "Parked")]_vars

\* ------------------------------------------------------------------ Battery
\* d restricted to the keys K
Restrict(d, K) == [k \in (DOMAIN d) \cap K |-> d[k]]

Levels == 1..MaxLevel

BatteryKeys == {"battery_level", "usable_battery_level", "charging_state"}

\* the charging facets seen by the battery sensor: absent, empty, complete,
\* and the ones that lack some of the fields it reads
BatteryChargingFacets ==
    {None}
    \cup {[battery_level |-> b, usable_battery_level |-> u, charging_state |-> c] :
            b \in Levels, u \in Levels, c \in {"Charging", "Complete"}}
    \cup {Restrict([battery_level |-> MaxLevel, usable_battery_level |-> 1,
                    charging_state |-> "Charging"], K) : K \in SUBSET BatteryKeys}

\* the fields of the battery sensor after the assignments of async_update from
\* data, which stop at the first field that data lacks
BatteryAfter(data) ==
    LET old == [battery_level |-> battery_level,
                usable_battery_level |-> usable_battery_level,
                charging_state |-> charging_state, raised |-> FALSE]
        s1 == [old EXCEPT !.battery_level = data.battery_level]
        s2 == [s1 EXCEPT !.usable_battery_level = data.usable_battery_level]
        s3 == [s2 EXCEPT !.charging_state = PyBool(data.charging_state = "Charging")]
    IN  IF ~Truthy(data) THEN old
        ELSE IF Raises(data, "battery_level") THEN [old EXCEPT !.raised = TRUE]
        ELSE IF Raises(data, "usable_battery_level") THEN [s1 EXCEPT !.raised = TRUE]
        ELSE IF Raises(data, "charging_state") THEN [s2 EXCEPT !.raised = TRUE]
        ELSE s3

Battery_async_update ==
    /\ pc["battery"] = "update"
    /\ pc' = [pc EXCEPT !["battery"] = "idle"]
    /\ wake_if_asleep' = [wake_if_asleep EXCEPT !["battery"] = "-"]
    /\ VehicleDevice_async_update("battery")
    /\ LET a == BatteryAfter(charging_params) IN
         /\ battery_level' = a.battery_level
         /\ usable_battery_level' = a.usable_battery_level
         /\ charging_state' = a.charging_state
         /\ Record(Entry("battery", "refresh", FALSE, "-", a.raised, FALSE, "-"))
    /\ UNCHANGED <<now, identity, ctlVars, statusVars, rangeVars, sentryVars, pcCmd>>

\* Battery.get_usable_value
Battery_get_usable_value == usable_battery_level

\* a presented value that is the usable level
Battery_get_value_usable == usable_battery_level

\* Battery.get_value
Battery_get_value == battery_level

\* Battery.battery_charging
Battery_battery_charging == charging_state

PollBattery ==
    \E ch \in BatteryChargingFacets :
        ControllerUpdate(car_online, ch, drive_params, gui_params, state_params)

BatteryNext ==
    \/ PollBattery
    \/ async_update_call("battery")
    \/ Battery_async_update

SpecBattery == Init /\ [][BatteryNext]_vars

\* the step of Battery.async_update that follows its await
BatteryRefreshStep == pc["battery"] = "update" /\ pc'["battery"] = "idle"

\* C7: presentedValue() is the battery_level of the most recent refresh that
\* found the charging facet present, the initial value before any, and never
\* the usable level: a refresh with the facet present makes it that facet's
\* battery_level, a refresh with the facet absent changes none of the level,
\* the usable level and the charging flag, and no other step changes them.
C7_BatteryLevel ==
    [][/\ (BatteryRefreshStep /\ Truthy(charging_params)
            /\ "battery_level" \in DOMAIN charging_params)
           => Battery_get_value' = charging_params.battery_level
       /\ (BatteryRefreshStep /\ ~Truthy(charging_params))
           => (UNCHANGED batteryVars /\ Battery_get_value' = Battery_get_value)
       /\ ~BatteryRefreshStep
           => (UNCHANGED batteryVars /\ Battery_get_value' = Battery_get_value)]_vars

\* a refresh read a facet whose battery_level and usable_battery_level differ
\* and the presented value is the battery_level
C7_Witness ==
    /\ last.dev = "battery" /\ last.op = "refresh" /\ ~last.raised /\ fresh
    /\ Truthy(charging_params)
    /\ charging_params.battery_level
         # charging_params.usable_battery_level
    /\ Battery_get_value = charging_params.battery_level
    /\ Battery_get_usable_value = charging_params.usable_battery_level

\* C11: a refresh that finds a facet present but lacking a field the device
\* reads does not end in an error and preserves every cached field, as if the
\* facet were absent; stated for the battery sensor and its charging facet.
C11_FailSoftPartial ==
    [][(BatteryRefreshStep /\ Truthy(charging_params)
            /\ ~Complete(charging_params, BatteryKeys))
          => (~last'.raised /\ UNCHANGED batteryVars)]_vars

\* ------------------------------------------------------------------ Range
Ranges == 1..MaxRange

RangeKeys == {"battery_range", "est_battery_range", "ideal_battery_range"}

\* the charging facets seen by the range sensor
RangeChargingFacets ==
    {None}
    \cup {[battery_range |-> r, est_battery_range |-> e, ideal_battery_range |-> i] :
            r \in Ranges, e \in Ranges, i \in Ranges}
    \cup {Restrict([battery_range |-> MaxRange, est_battery_range |-> MaxRange,
                    ideal_battery_range |-> MaxRange], K) :
            K \in {{}, {"battery_range"}, {"battery_range", "est_battery_range"},
                   {"est_battery_range", "ideal_battery_range"}}}

GuiKeys == {"gui_distance_units", "gui_range_display"}

\* the GUI-settings facets
GuiFacets ==
    {None}
    \cup {[gui_distance_units |-> u, gui_range_display |-> d] :
            u \in {"mi/hr", "km/hr"}, d \in {"Rated", "Ideal"}}
    \cup {Restrict([gui_distance_units |-> "km/hr", gui_range_display |-> "Ideal"], K) :
            K \in SUBSET GuiKeys}

\* the range figures after the first block of Range.async_update
RangeAfterCharging(data) ==
    LET old == [battery_range |-> battery_range,
                est_battery_range |-> est_battery_range,
                ideal_battery_range |-> ideal_battery_range, raised |-> FALSE]
        s1 == [old EXCEPT !.battery_range = data.battery_range]
        s2 == [s1 EXCEPT !.est_battery_range = data.est_battery_range]
        s3 == [s2 EXCEPT !.ideal_battery_range = data.ideal_battery_range]
    IN  IF ~Truthy(data) THEN old
        ELSE IF Raises(data, "battery_range") THEN [old EXCEPT !.raised = TRUE]
        ELSE IF Raises(data, "est_battery_range") THEN [s1 EXCEPT !.raised = TRUE]
        ELSE IF Raises(data, "ideal_battery_range") THEN [s2 EXCEPT !.raised = TRUE]
        ELSE s3

\* a second block nested in the first: it runs only when the charging facet
\* is present
RangeGuiNeedsCharging(data, ranges_raised) ==
    LET old == [measurement |-> measurement, rated |-> rated, raised |-> ranges_raised]
        s1 == [old EXCEPT !.measurement = IF data.gui_distance_units = "mi/hr"
                                          THEN "LENGTH_MILES"
                                          ELSE "LENGTH_KILOMETERS"]
        s2 == [s1 EXCEPT !.rated = PyBool(data.gui_range_display = "Rated")]
    IN  IF ranges_raised \/ ~Truthy(data) \/ ~Truthy(charging_params) THEN old
        ELSE IF Raises(data, "gui_distance_units") THEN [old EXCEPT !.raised = TRUE]
        ELSE IF Raises(data, "gui_range_display") THEN [s1 EXCEPT !.raised = TRUE]
        ELSE s2

\* the unit and the rated flag after the second block of Range.async_update,
\* which is not reached when the first block raised
RangeAfterGui(data, ranges_raised) ==
    LET old == [measurement |-> measurement, rated |-> rated, raised |-> ranges_raised]
        s1 == [old EXCEPT !.measurement = IF data.gui_distance_units = "mi/hr"
                                          THEN "LENGTH_MILES"
                                          ELSE "LENGTH_KILOMETERS"]
        s2 == [s1 EXCEPT !.rated = PyBool(data.gui_range_display = "Rated")]
    IN  IF ranges_raised \/ ~Truthy(data) THEN old
        ELSE IF Raises(data, "gui_distance_units") THEN [old EXCEPT !.raised = TRUE]
        ELSE IF Raises(data, "gui_range_display") THEN [s1 EXCEPT !.raised = TRUE]
        ELSE s2

Range_async_update ==
    /\ pc["range"] = "update"
    /\ pc' = [pc EXCEPT !["range"] = "idle"]
    /\ wake_if_asleep' = [wake_if_asleep EXCEPT !["range"] = "-"]
    /\ VehicleDevice_async_update("range")
    /\ LET a == RangeAfterCharging(charging_params)
           g == RangeAfterGui(gui_params, a.raised) IN
         /\ battery_range' = a.battery_range
         /\ est_battery_range' = a.est_battery_range
         /\ ideal_battery_range' = a.ideal_battery_range
         /\ measurement' = g.measurement
         /\ rated' = g.rated
         /\ Record(Entry("range", "refresh", FALSE, "-", g.raised, FALSE, "-"))
    /\ UNCHANGED <<now, identity, ctlVars, statusVars, batteryVars, sentryVars, pcCmd>>

\* a presented value that is always the rated range
Range_get_value_rated == battery_range

\* Range.get_value
Range_get_value == IF rated = "True" THEN battery_range ELSE ideal_battery_range

\* a poll finds one of the two facets changed
PollRange ==
    \/ \E ch \in RangeChargingFacets :
          ControllerUpdate(car_online, ch, drive_params, gui_params, state_params)
    \/ \E gui \in GuiFacets :
          ControllerUpdate(car_online, charging_params, drive_params, gui, state_params)

RangeNext ==
    \/ PollRange
    \/ async_update_call("range")
    \/ Range_async_update

SpecRange == Init /\ [][RangeNext]_vars

\* the step of Range.async_update that follows its await
RangeRefreshStep == pc["range"] = "update" /\ pc'["range"] = "idle"

rangeFigures == <<battery_range, est_battery_range, ideal_battery_range>>

rangeFlags == <<measurement, rated>>

\* C8: in each refresh the charging facet and the GUI-settings facet are
\* applied independently: with the charging facet absent and the GUI facet
\* present the range figures are unchanged and the unit and the rated flag are
\* updated; with the GUI facet absent and the charging facet present the unit
\* and the rated flag are unchanged and the three range figures are updated;
\* with both absent nothing changes.
C8_FacetIndependence ==
    [][RangeRefreshStep =>
        /\ (~Truthy(charging_params) /\ Complete(gui_params, GuiKeys)) =>
              /\ UNCHANGED rangeFigures
              /\ measurement' = IF gui_params.gui_distance_units = "mi/hr"
                                 THEN "LENGTH_MILES" ELSE "LENGTH_KILOMETERS"
              /\ rated' = PyBool(gui_params.gui_range_display = "Rated")
        /\ (~Truthy(gui_params) /\ Complete(charging_params, RangeKeys)) =>
              /\ UNCHANGED rangeFlags
              /\ battery_range' = charging_params.battery_range
              /\ est_battery_range' = charging_params.est_battery_range
              /\ ideal_battery_range' = charging_params.ideal_battery_range
        /\ (~Truthy(gui_params) /\ ~Truthy(charging_params)) =>
              UNCHANGED <<rangeFigures, rangeFlags>>]_vars

\* a refresh found the charging facet absent and the GUI facet present: the
\* figures of an earlier refresh are kept and the flags are the facet's
C8_Witness ==
    /\ last.dev = "range" /\ last.op = "refresh" /\ ~last.raised /\ fresh
    /\ ~Truthy(charging_params)
    /\ Complete(gui_params, GuiKeys)
    /\ gui_params.gui_range_display = "Ideal"
    /\ gui_params.gui_distance_units = "km/hr"
    /\ rated = "False" /\ measurement = "LENGTH_KILOMETERS"
    /\ battery_range > 0

\* C9: presentedValue() is the rated range when the rated-display flag is
\* true and the ideal range otherwise, whatever the estimated range; the flag
\* is true initially, a refresh with the GUI facet present makes it true
\* exactly when that facet's gui_range_display is "Rated", and a refresh with
\* the GUI facet absent, or any other step, leaves it as it was.
C9_RatedOrIdeal ==
    /\ rated = "True"
    /\ [](/\ rated \in {"True", "False"}
          /\ rated = "True" => Range_get_value = battery_range
          /\ rated = "False" => Range_get_value = ideal_battery_range)
    /\ [][/\ (RangeRefreshStep /\ WellFormed(charging_params, RangeKeys)
               /\ Complete(gui_params, GuiKeys))
              => rated' = PyBool(gui_params.gui_range_display = "Rated")
          /\ (RangeRefreshStep /\ ~Truthy(gui_params)) => rated' = rated
          /\ ~RangeRefreshStep => rated' = rated]_vars

\* ideal display: the presented value is the ideal range, which differs from
\* the rated and from the estimated range
C9_Witness ==
    /\ last.dev = "range" /\ last.op = "refresh" /\ ~last.raised /\ fresh
    /\ Complete(gui_params, GuiKeys)
    /\ gui_params.gui_range_display = "Ideal"
    /\ rated = "False"
    /\ Range_get_value = ideal_battery_range
    /\ ideal_battery_range # battery_range
    /\ ideal_battery_range # est_battery_range

\* ------------------------------------------------------------------ SentrySwitch
\* a switch that never counts as on
SentryOnNever(v) == FALSE

\* bool(v) of a value held by __sentry_state
SentryOn(v) == v = "True"

\* a refresh that always takes the polled value
RaceGuardMissing(last_update, manual) == TRUE

\* a guard that also holds back a poll stamped with the time of the command
RaceGuardStrict(last_update, manual) == last_update > manual

\* the race guard of SentrySwitch.async_update
RaceGuard(last_update, manual) == last_update >= manual

\* the value of (data and data["sentry_mode"]) when it does not raise
DataAndSentryMode(data) ==
    IF data = None THEN "None"
    ELSE IF DOMAIN data = {} THEN "{}"
    ELSE data.sentry_mode

SentrySwitch_async_update ==
    /\ pc["sentry"] = "update"
    /\ pc' = [pc EXCEPT !["sentry"] = "idle"]
    /\ wake_if_asleep' = [wake_if_asleep EXCEPT !["sentry"] = "-"]
    /\ VehicleDevice_async_update("sentry")
    /\ IF RaceGuard(last_update_time, manual_update_time)
       THEN IF Truthy(state_params) /\ Raises(state_params, "sentry_mode")
            THEN /\ sentry_state' = sentry_state
                 /\ Record(Entry("sentry", "refresh", FALSE, "-", TRUE, TRUE, "-"))
            ELSE /\ sentry_state' = DataAndSentryMode(state_params)
                 /\ Record(Entry("sentry", "refresh", FALSE, "-", FALSE, TRUE, "-"))
       ELSE /\ sentry_state' = sentry_state
            /\ Record(Entry("sentry", "refresh", FALSE, "-", FALSE, FALSE, "-"))
    /\ UNCHANGED <<now, identity, ctlVars, statusVars, batteryVars, rangeVars,
                   manual_update_time, pcCmd>>

\* the answers of Controller.command: nothing, a refusal, a success
Responses == {"None", "Fail", "Ok"}

\* a command whose success is never seen
CommandSucceededNever(resp) == FALSE

\* data and data["response"]["result"]
CommandSucceeded(resp) == resp = "Ok"

\* enable_sentry up to its await; a switch that is already on returns at once
enable_sentry_call ==
    /\ "sentry" \in DOMAIN identity
    /\ pcCmd = "idle"
    /\ IF ~SentryOn(sentry_state)
       THEN /\ pcCmd' = "enable"
            /\ UNCHANGED histVars
       ELSE /\ pcCmd' = "idle"
            /\ Record(Command("enable", FALSE, "-"))
    /\ UNCHANGED <<now, identity, ctlVars, car_version, pc, wake_if_asleep, statusVars, batteryVars,
                   rangeVars, sentryVars>>

\* the time recorded only when the command succeeded
ManualUpdateTimeOnSuccess(resp) == IF resp = "Ok" THEN now ELSE manual_update_time

\* the time recorded after a command that answered resp
ManualUpdateTimeAfter(resp) == now

\* enable_sentry after the await
enable_sentry_return ==
    /\ pcCmd = "enable"
    /\ \E resp \in Responses :
         /\ sentry_state' = IF CommandSucceeded(resp) THEN "True" ELSE sentry_state
         /\ manual_update_time' = ManualUpdateTimeAfter(resp)
         /\ Record(Command("enable", TRUE, resp))
    /\ pcCmd' = "idle"
    /\ UNCHANGED <<now, identity, ctlVars, car_version, pc, wake_if_asleep, statusVars, batteryVars, rangeVars>>

disable_sentry_call ==
    /\ "sentry" \in DOMAIN identity
    /\ pcCmd = "idle"
    /\ IF SentryOn(sentry_state)
       THEN /\ pcCmd' = "disable"
            /\ UNCHANGED histVars
       ELSE /\ pcCmd' = "idle"
            /\ Record(Command("disable", FALSE, "-"))
    /\ UNCHANGED <<now, identity, ctlVars, car_version, pc, wake_if_asleep, statusVars, batteryVars,
                   rangeVars, sentryVars>>

disable_sentry_return ==
    /\ pcCmd = "disable"
    /\ \E resp \in Responses :
         /\ sentry_state' = IF CommandSucceeded(resp) THEN "False" ELSE sentry_state
         /\ manual_update_time' = ManualUpdateTimeAfter(resp)
         /\ Record(Command("disable", TRUE, resp))
    /\ pcCmd' = "idle"
    /\ UNCHANGED <<now, identity, ctlVars, car_version, pc, wake_if_asleep, statusVars, batteryVars, rangeVars>>

\* SentrySwitch.get_value
SentrySwitch_get_value == sentry_state

\* the Controller polls a vehicle whose state facet is any of StateFacets
PollSentry ==
    \E st \in StateFacets :
        ControllerUpdate(car_online, charging_params, drive_params, gui_params, st)

SentryNext ==
    \/ Tick
    \/ PollSentry
    \/ async_update_call("sentry")
    \/ SentrySwitch_async_update
    \/ enable_sentry_call
    \/ enable_sentry_return
    \/ disable_sentry_call
    \/ disable_sentry_return

SpecSentry == Init /\ [][SentryNext]_vars

\* the host keeps polling the switch: a refresh that can start does start, and
\* a refresh whose await has returned runs to its end
SpecSentryLive ==
    /\ Init /\ [][SentryNext]_vars
    /\ WF_vars(async_update_call("sentry"))
    /\ WF_vars(SentrySwitch_async_update)

\* the answers of the vehicle to a poll of its state
InflightStates == {[sentry_mode |-> PyBool(b)] : b \in BOOLEAN}

\* the sentry switch next to a Controller whose polls take time
InflightNext ==
    \/ Tick
    \/ \E st \in InflightStates : ControllerPollBegin(st)
    \/ ControllerPollEnd
    \/ async_update_call("sentry")
    \/ SentrySwitch_async_update
    \/ enable_sentry_call
    \/ enable_sentry_return
    \/ disable_sentry_call
    \/ disable_sentry_return

SpecInflight == Init /\ [][InflightNext]_vars

\* ------------------------------------------------------------------ SentrySwitch: properties
\* the step of SentrySwitch.async_update that follows its await
SentryRefreshStep == pc["sentry"] = "update" /\ pc'["sentry"] = "idle"

\* the step of enable_sentry / disable_sentry that follows its await
CommandReturnStep == pcCmd \in {"enable", "disable"} /\ pcCmd' = "idle"

\* C1: a refresh overwrites the cached sentry state only when the last-update
\* time it reads is not earlier than lastManualUpdateTime: a refresh that reads
\* an earlier time leaves the cached state as it was, and right after a
\* successful enable() such a refresh leaves the state enabled.
C1_RaceGuard ==
    [][/\ (SentryRefreshStep /\ last_update_time < manual_update_time)
            => sentry_state' = sentry_state
       /\ (SentryRefreshStep /\ last_update_time < manual_update_time
            /\ last.op = "enable" /\ last.resp = "Ok")
            => sentry_state' = "True"
       /\ (SentryRefreshStep /\ sentry_state' # sentry_state)
            => last_update_time >= manual_update_time]_vars

\* a refresh that ran right after a successful enable() read a poll older than
\* the enable, the poll said "off", and the switch is still on
C1_Witness ==
    /\ prev.op = "enable" /\ prev.issued /\ prev.resp = "Ok"
    /\ last.op = "refresh" /\ ~last.guard /\ fresh
    /\ Truthy(state_params)
    /\ "sentry_mode" \in DOMAIN state_params
    /\ state_params.sentry_mode = "False"
    /\ last_update_time < manual_update_time
    /\ sentry_state = "True"

\* C2 as stated: two enable() calls in a row issue exactly one remote command,
\* and so do two disable() calls in a row.
C2_ExactlyOneCommand ==
    /\ (prev.op = "enable" /\ last.op = "enable") => (prev.issued # last.issued)
    /\ (prev.op = "disable" /\ last.op = "disable") => (prev.issued # last.issued)

\* C2 amended: when the first of two enable() calls in a row issued a command
\* that succeeded, the second call issues none (exactly one command for the
\* two calls); the same for two disable() calls in a row.
C2_SecondCallNoOp ==
    /\ (prev.op = "enable" /\ prev.issued /\ prev.resp = "Ok" /\ last.op = "enable")
          => ~last.issued
    /\ (prev.op = "disable" /\ prev.issued /\ prev.resp = "Ok" /\ last.op = "disable")
          => ~last.issued

\* enable() succeeded with a command and the enable() after it was a no-op
C2_Witness ==
    /\ prev.op = "enable" /\ prev.issued /\ prev.resp = "Ok"
    /\ last.op = "enable" /\ ~last.issued
    /\ sentry_state = "True"

\* C3: a command that fails (no response, or a response reporting failure)
\* leaves the cached state unchanged, a command that succeeds makes it the
\* commanded value, and both set lastManualUpdateTime to the current time.
C3_CommandOutcome ==
    [][CommandReturnStep =>
        /\ manual_update_time' = now
        /\ last'.resp \in {"None", "Fail"} => sentry_state' = sentry_state
        /\ (last'.resp = "Ok" /\ pcCmd = "enable") => sentry_state' = "True"
        /\ (last'.resp = "Ok" /\ pcCmd = "disable") => sentry_state' = "False"]_vars

\* a failed enable() left the switch off and moved lastManualUpdateTime forward
C3_Witness ==
    /\ last.op = "enable" /\ last.issued /\ last.resp \in {"None", "Fail"}
    /\ sentry_state = "False"
    /\ manual_update_time = now /\ now > 0

\* C6: a refresh that passes the race guard while the state-parameters facet
\* is absent leaves the cached sentry state, and so the presented value, as it was.
C6_AbsentFacetKeepsState ==
    [][(SentryRefreshStep /\ last_update_time >= manual_update_time
        /\ ~Truthy(state_params))
       => sentry_state' = sentry_state]_vars

\* C13: the cached sentry state, and so the presented value, is always one of
\* the two booleans.
C13_TwoStates ==
    /\ sentry_state \in {"True", "False"}
    /\ SentrySwitch_get_value \in {"True", "False"}

\* a call of enable_sentry / disable_sentry that returned without a command
NoOpCallStep ==
    /\ last'.op \in {"enable", "disable"} /\ ~last'.issued
    /\ fresh' /\ histVars' # histVars

\* C17: lastManualUpdateTime changes only in the return of an enable() or
\* disable() that issued a command; enable() while enabled and disable() while
\* disabled issue no command and leave the cached state and the time as they
\* were; a refresh never changes the time; the time never decreases.
C17_ManualTime ==
    [][/\ manual_update_time' # manual_update_time
            => (CommandReturnStep /\ last'.issued)
       /\ manual_update_time' >= manual_update_time
       /\ SentryRefreshStep => manual_update_time' = manual_update_time
       /\ (pcCmd = "idle" /\ sentry_state = "True") => pcCmd' # "enable"
       /\ (pcCmd = "idle" /\ sentry_state = "False") => pcCmd' # "disable"
       /\ NoOpCallStep => UNCHANGED sentryVars]_vars

\* disable() on a switch that an earlier disable() turned off returned without
\* a command, at a time later than the recorded one
C17_Witness ==
    /\ prev.op = "disable" /\ prev.issued /\ prev.resp = "Ok"
    /\ last.op = "disable" /\ ~last.issued
    /\ sentry_state = "False"
    /\ manual_update_time > 0 /\ manual_update_time < now

\* the poll the Controller holds is usable by a refresh: the guard lets it
\* through and the state facet holds sentry_mode
PollUsable ==
    /\ last_update_time >= manual_update_time
    /\ Complete(state_params, {"sentry_mode"})

\* C18: a refresh that reads a last-update time not earlier than
\* lastManualUpdateTime, with the state facet present, sets the cached state
\* to the polled sentry_mode, whatever command came before; so when from some
\* time on the polls are usable and refreshes keep running, the cached state
\* equals the polled sentry_mode again and again.
C18_PollsResume ==
    /\ [][(SentryRefreshStep /\ PollUsable)
            => sentry_state' = state_params.sentry_mode]_vars
    /\ (<>[]PollUsable) => []<>(PollUsable /\ sentry_state = state_params.sentry_mode)

\* after a failed enable() a refresh took the polled value "on"
C18_Witness ==
    /\ prev.op = "enable" /\ prev.issued /\ prev.resp = "Fail"
    /\ last.op = "refresh" /\ last.guard /\ ~last.raised /\ fresh
    /\ manual_update_time > 0
    /\ PollUsable
    /\ state_params.sentry_mode = "True"
    /\ sentry_state = "True"

\* C15: a poll that the vehicle answered before a command was issued and that
\* completed after the command had succeeded does not make a refresh change
\* the state the command set.
C15_InflightPollProtected ==
    [][(/\ SentryRefreshStep
        /\ overtaken
        /\ last.op \in {"enable", "disable"} /\ last.issued /\ last.resp = "Ok"
        /\ last_update_time > manual_update_time)
          => sentry_state' = sentry_state]_vars

\* ------------------------------------------------------------------ two devices of one vehicle
\* what the Controller holds of the vehicle after a poll: nothing, one of two
\* complete answers that differ in every field a device reads, or the state
\* of a sleeping vehicle without its car version
VehicleCaches ==
    {[online |-> TRUE, ch |-> None, dr |-> None, gui |-> None, st |-> None],
     [online |-> TRUE,
      ch |-> [battery_level |-> 1, usable_battery_level |-> 1,
              charging_state |-> "Charging", battery_range |-> 1,
              est_battery_range |-> 1, ideal_battery_range |-> 1],
      dr |-> [shift_state |-> "D"],
      gui |-> [gui_distance_units |-> "km/hr", gui_range_display |-> "Ideal"],
      st |-> [sentry_mode |-> "True", car_version |-> "v1"]],
     [online |-> TRUE,
      ch |-> [battery_level |-> MaxLevel, usable_battery_level |-> MaxLevel,
              charging_state |-> "Complete", battery_range |-> MaxRange,
              est_battery_range |-> MaxRange, ideal_battery_range |-> MaxRange],
      dr |-> [shift_state |-> "P"],
      gui |-> [gui_distance_units |-> "mi/hr", gui_range_display |-> "Rated"],
      st |-> [sentry_mode |-> "False", car_version |-> "v2"]],
     [online |-> FALSE, ch |-> None, dr |-> None, gui |-> None,
      st |-> [sentry_mode |-> "True"]]}

PollDevices ==
    \E c \in VehicleCaches : ControllerUpdate(c.online, c.ch, c.dr, c.gui, c.st)

\* the host has set up any two devices of the vehicle
InitTwoDevices ==
    /\ InitFields
    /\ \E P \in SUBSET Devices :
          /\ Cardinality(P) = 2
          /\ identity = [d \in P |-> Identity(VehicleData)]

DevicesNext ==
    \/ PollDevices
    \/ \E d \in Devices : async_update_call(d)
    \/ VehicleDevice_async_update_return
    \/ StatusSensor_async_update
    \/ Battery_async_update
    \/ Range_async_update
    \/ SentrySwitch_async_update
    \/ enable_sentry_call
    \/ enable_sentry_return
    \/ disable_sentry_call
    \/ disable_sentry_return

SpecDevices == InitTwoDevices /\ [][DevicesNext]_vars

\* the private cached fields of device d and the value it presents
FieldsOf(d) ==
    CASE d = "vehicle" -> <<car_version[d]>>
      [] d = "status" -> <<car_version[d], statusVars, StatusSensor_get_value>>
      [] d = "battery" -> <<car_version[d], batteryVars, Battery_get_value>>
      [] d = "range" -> <<car_version[d], rangeVars, Range_get_value>>
      [] d = "sentry" -> <<car_version[d], sentryVars, SentrySwitch_get_value>>

\* the step of d's async_update up to its await
RefreshCallStep(d) == pc[d] = "idle" /\ pc'[d] = "update"

\* the step of d's async_update that follows its await
RefreshStep(d) == pc[d] = "update" /\ pc'[d] = "idle"

\* a step of a refresh or of a command of device d
StepOf(d) ==
    \/ pc'[d] # pc[d]
    \/ d = "sentry" /\ (pcCmd' # pcCmd \/ NoOpCallStep)

\* C12: in every refresh of every device the Controller resync is requested
\* first, with wake_if_asleep False, and the device's fields are read and
\* written only in the step after that await: the call step changes no field
\* of the device, no refresh ever asks for a forced wake, and a refresh changes
\* fields of the device only after the call it made with wake_if_asleep False.
C12_RefreshOrdering ==
    [][\A d \in Devices :
          /\ RefreshCallStep(d)
               => (wake_if_asleep'[d] = "False" /\ FieldsOf(d)' = FieldsOf(d))
          /\ wake_if_asleep'[d] # "True"
          /\ (FieldsOf(d)' # FieldsOf(d) /\ ~(d = "sentry" /\ CommandReturnStep))
               => (RefreshStep(d) /\ wake_if_asleep[d] = "False")]_vars

\* the battery sensor has completed a refresh that read a present facet while
\* the refresh of the sentry switch awaits its resync
C12_Witness ==
    /\ last.dev = "battery" /\ last.op = "refresh" /\ fresh
    /\ Truthy(charging_params)
    /\ battery_level = charging_params.battery_level
    /\ pc["battery"] = "idle" /\ wake_if_asleep["battery"] = "-"
    /\ pc["sentry"] = "update" /\ wake_if_asleep["sentry"] = "False"

C16_CarVersion ==
    /\ \A d \in Devices : car_version[d] = ""
    /\ [][/\ \A d \in Devices :
              IF RefreshStep(d) /\ Complete(state_params, {"car_version"})
              THEN car_version'[d] = state_params.car_version
              ELSE car_version'[d] = car_version[d]
           /\ identity' = identity]_vars
    /\ [](\A d \in DOMAIN identity :
            /\ identity[d].id = VehicleData.id
            /\ identity[d].vehicle_id = VehicleData.vehicle_id
            /\ identity[d].vin = VehicleData.vin
            /\ identity[d].display_name = VehicleData.display_name
            /\ identity[d].car_type = <<"Model ", "S">>)

\* a device that had read car version v2 has completed a refresh that found
\* the state facet without car_version, and still holds v2
C16_Witness ==
    /\ last.op = "refresh" /\ fresh /\ ~last.raised
    /\ last.dev \in DOMAIN identity
    /\ Truthy(state_params) /\ "car_version" \notin DOMAIN state_params
    /\ car_version[last.dev] = "v2"
    /\ identity[last.dev].car_type = <<"Model ", "S">>
====
